---------------------------- MODULE Spec2Model ----------------------------
(***************************************************************************)
(* Model of the Solis production page: the signed API client               *)
(* (sendSolisApiRequest), the monthly aggregation (fetchDataFromSolis /    *)
(* fetchData), the page's data hook (getStaticProps) and the four          *)
(* revalidation handlers (pages/api/cron.js and the two handlers of        *)
(* unnamed/part_000).                                                      *)
(*                                                                         *)
(* Numbers: an energy is a JavaScript number; the model keeps it as an     *)
(* integer count of hundredths of a kWh (105 is 1.05 kWh), so that         *)
(* Math.round(e * 10) / 10 is exact integer arithmetic.                    *)
(***************************************************************************)
EXTENDS Integers, Sequences, FiniteSets, TLC

VARIABLES
    now,        \* new Date() read at the top of fetchData: [year, month], month 0-based
    clock,      \* the wall clock getGMTDate() reads, in ticks
    pc,         \* position of the aggregation: start, awaitList, loop, awaitStation, returned, done
    records,    \* stationListResponse.data.page.records
    idx,        \* position of the for..of loop in records (1-based)
    dayTotals,  \* the accumulator, a sequence of JavaScript values
    inFlight,   \* requests handed to fetch() and not yet answered
    sent,       \* every request handed to fetch(), in order
    listResp,   \* what the server answered to the station-list call
    outcomes,   \* what the server answered to each stationMonth call, in order
    result,     \* the value fetchData returned
    props,      \* the props getStaticProps returned
    hpc,        \* position of a revalidation handler: idle, await, done
    hname,      \* which revalidation handler is running
    req,        \* the request (or event) the handler was invoked with
    env,        \* process.env as the handlers see it
    effects,    \* calls to res.revalidate and outbound fetches of the handler, in order
    writes,     \* response writes the handler attempted, in order
    thrown      \* the error that escaped the handler, "" if none

aggVars == <<now, clock, pc, records, idx, dayTotals, inFlight, sent, listResp, outcomes,
            result, props>>
hVars == <<hpc, hname, req, env, effects, writes, thrown>>
vars == <<now, clock, pc, records, idx, dayTotals, inFlight, sent, listResp, outcomes, result, props,
          hpc, hname, req, env, effects, writes, thrown>>

----------------------------------------------------------------------------
(* Bounds of the model *)

\* the station list holds at most this many stations
MaxStations == 2
\* the number of different fillings of a stationMonth response
NumPatterns == 2

----------------------------------------------------------------------------
(* JavaScript values *)

Num(n) == [t |-> "number", v |-> n, s |-> ""]
Str(x) == [t |-> "string", v |-> 0, s |-> x]
Undefined == [t |-> "undefined", v |-> 0, s |-> ""]
Null == [t |-> "null", v |-> 0, s |-> ""]
NaN == [t |-> "NaN", v |-> 0, s |-> ""]

\* ToBoolean
Truthy(x) == (x.t = "number" /\ x.v # 0) \/ (x.t = "string" /\ x.s # "")

\* x === y
StrictEq(x, y) ==
    /\ x.t = y.t
    /\ x.t # "NaN"
    /\ x.v = y.v
    /\ x.s = y.s

\* `${x}` for a string or an unset variable
Template(x) == IF x.t = "string" THEN x.s ELSE x.t

\* x || y
JsOr(x, y) == IF Truthy(x) THEN x ELSE y

\* ToNumber
ToNumber(x) ==
    CASE x.t = "number" -> x
      [] x.t = "null" -> Num(0)
      [] OTHER -> NaN

\* x + y on numbers, null and undefined
JsAdd(x, y) ==
    LET a == ToNumber(x)
        b == ToNumber(y)
    IN  IF a.t = "number" /\ b.t = "number" THEN Num(a.v + b.v) ELSE NaN

\* Math.round(e * 10) / 10: halves round towards +Infinity
Round1(x) ==
    IF x.t = "number" THEN Num(((x.v + 5) \div 10) * 10) ELSE NaN

RECURSIVE Reduce(_, _, _)
\* the reduce callback (acc, val) => acc + val over elements lo..hi; the
\* additions are grouped in halves, which gives the sum of the left-to-right
\* fold since JsAdd is associative on exact numbers
Reduce(arr, lo, hi) ==
    IF lo > hi THEN Num(0)
    ELSE IF lo = hi THEN JsAdd(Num(0), arr[lo])
    ELSE LET mid == (lo + hi) \div 2
         IN  JsAdd(Reduce(arr, lo, mid), Reduce(arr, mid + 1, hi))

\* dayTotals.reduce((acc, val) => acc + val, 0)
SumSeq(arr) == Reduce(arr, 1, Len(arr))

----------------------------------------------------------------------------
(* The calendar *)

IsLeap(y) == (y % 4 = 0 /\ y % 100 # 0) \/ y % 400 = 0

\* new Date(year, month + 1, 0).getDate(), month 0-based
DaysInMonth(y, m) ==
    IF m = 1 THEN (IF IsLeap(y) THEN 29 ELSE 28)
    ELSE IF m \in {3, 5, 8, 10} THEN 30
    ELSE 31

\* `${year}-${String(month + 1).padStart(2, "0")}`
MonthStr(y, m) == <<y, "-", (m + 1) \div 10, (m + 1) % 10>>

\* now.toLocaleString("sv-SE", { month: "long" })
MonthName(m) ==
    <<"januari", "februari", "mars", "april", "maj", "juni", "juli",
      "augusti", "september", "oktober", "november", "december">>[m + 1]

\* the dates the aggregation is run at: months of 28, 29, 30 and 31 days
Nows == { [year |-> 2023, month |-> 1], [year |-> 2024, month |-> 1],
          [year |-> 2024, month |-> 3], [year |-> 2024, month |-> 11] }

----------------------------------------------------------------------------
(* Request signer and API client: components/utils.js, pages/index.js *)

Host == "https://www.soliscloud.com:13333"

\* createHash("md5").update(body).digest("base64")
getContentMd5(body) == [md5 |-> body]

\* new Date().toUTCString()
getGMTDate == [utc |-> clock]

\* a variant of getSignature that signs a second reading of the clock
getSignature_OtherDate(contentMd5, date, path, secret) ==
    [hmac |-> secret,
     over |-> <<"POST", contentMd5, "application/json", [utc |-> date.utc + 1], path>>]

\* createHmac("sha1", secret).update(signatureString).digest("base64");
\* the signature string is kept as the tuple of its newline-separated fields
getSignature(contentMd5, date, path, secret) ==
    LET signatureString == <<"POST", contentMd5, "application/json", date, path>>
    IN  [hmac |-> secret, over |-> signatureString]

\* JSON.stringify(bodyObject)
JsonStringify(bodyObject) == [json |-> bodyObject]

\* sendSolisApiRequest up to the await: the request handed to fetch()
sendSolisApiRequest(path, bodyObject) ==
    LET url == <<Host, path>>
        bodyString == JsonStringify(bodyObject)
        contentMd5 == getContentMd5(bodyString)
        date == getGMTDate
        signature == getSignature(contentMd5, date, path, env.API_SECRET)
        headers == [ContentType |-> "application/json;charset=UTF-8",
                    Authorization |-> <<"API ", env.API_KEY, ":", signature>>,
                    ContentMD5 |-> contentMd5,
                    Date |-> date,
                    Connection |-> "keep-alive"]
    IN  [url |-> url, method |-> "POST", headers |-> headers, body |-> bodyString]

\* sendSolisApiRequest after the await: TRUE when it throws (fetch rejected,
\* or the response is not ok), FALSE when it returns the parsed body
RequestThrows(resp) == resp.rejected \/ ~resp.ok

----------------------------------------------------------------------------
(* What the Solis server can answer *)

NoBody == [hasData |-> FALSE, records |-> <<>>, data |-> <<>>]

\* no answer yet
NoResponse == [rejected |-> FALSE, ok |-> FALSE, status |-> 0, body |-> NoBody]

\* the statuses of the answers that are not ok
ErrorStatuses == {500}

FailedResponses ==
    { [rejected |-> TRUE, ok |-> FALSE, status |-> 0, body |-> NoBody] }
    \cup { [rejected |-> FALSE, ok |-> FALSE, status |-> st, body |-> NoBody] :
             st \in ErrorStatuses }

\* a 2xx answer whose JSON has no data member
EmptyOkResponse == [rejected |-> FALSE, ok |-> TRUE, status |-> 200, body |-> NoBody]

\* the lists of stations: the ids 1..n in ascending and in descending order,
\* for every n up to MaxStations
StationLists ==
    { [i \in 1..n |-> i] : n \in 0..MaxStations }
    \cup { [i \in 1..n |-> n + 1 - i] : n \in 0..MaxStations }

ListResponses ==
    { [rejected |-> FALSE, ok |-> TRUE, status |-> 200,
       body |-> [hasData |-> TRUE, records |-> [i \in DOMAIN l |-> [id |-> l[i]]], data |-> <<>>]] :
         l \in StationLists }

\* one element of a stationMonth response's data array
Entry(k) ==
    CASE k = 0 -> [t |-> "object", energy |-> Num(3)]
      [] k = 1 -> [t |-> "object", energy |-> Num(105)]
      [] k = 2 -> [t |-> "object", energy |-> Undefined]
      [] k = 3 -> [t |-> "null", energy |-> Undefined]
      [] k = 4 -> [t |-> "object", energy |-> Null]
      [] k = 5 -> [t |-> "object", energy |-> Num(0)]
      [] OTHER -> [t |-> "object", energy |-> Num(4)]

\* the data array of length len filled the p-th way
MonthData(len, p) == [i \in 1..len |-> Entry((i * p) % 7)]

\* a data array is one entry shorter than the month, as long, or one longer
LenOffsets == {-1, 0, 1}

MonthResponses(days) ==
    { [rejected |-> FALSE, ok |-> TRUE, status |-> 200,
       body |-> [hasData |-> TRUE, records |-> <<>>, data |-> MonthData(len, p)]] :
         len \in { days + o : o \in LenOffsets }, p \in 1..NumPatterns }

----------------------------------------------------------------------------
(* The aggregation: fetchDataFromSolis (components/utils.js) and its copy  *)
(* fetchData (pages/index.js), cut at each await                           *)

daysInMonth == DaysInMonth(now.year, now.month)

\* a value fetchData can return; keys holds the members the object has
ResultObject(keys, dailyTotals, monthlyTotal, monthName, error) ==
    [keys |-> keys, dailyTotals |-> dailyTotals, monthlyTotal |-> monthlyTotal,
     monthName |-> monthName, error |-> error]

NoResult == ResultObject({}, <<>>, Undefined, "", "")

\* the outer catch: return { error: "Failed to fetch data" }
FailedResult == ResultObject({"error"}, <<>>, Undefined, "", "Failed to fetch data")

\* dailyData[i]?.energy, i 0-based
EnergyAt(dailyData, i) ==
    IF i + 1 > Len(dailyData) THEN Undefined
    ELSE IF dailyData[i + 1].t # "object" THEN Undefined
    ELSE dailyData[i + 1].energy

\* a variant of EnergyOrZero without the || 0
EnergyOrZero_NoDefault(dailyData, i) == EnergyAt(dailyData, i)

\* const energy = dailyData[i]?.energy || 0
EnergyOrZero(dailyData, i) == JsOr(EnergyAt(dailyData, i), Num(0))

\* a variant of Accumulate whose loop runs over dailyData.length
Accumulate_OverData(totals, dailyData) ==
    [i \in 1..(IF Len(dailyData) > Len(totals) THEN Len(dailyData) ELSE Len(totals)) |->
        IF i > Len(dailyData) THEN totals[i]
        ELSE JsAdd(IF i <= Len(totals) THEN totals[i] ELSE Undefined,
                   JsOr(EnergyAt(dailyData, i - 1), Num(0)))]

\* the inner for loop: dayTotals[i] += energy for i < daysInMonth
Accumulate(totals, dailyData) ==
    [i \in 1..Len(totals) |-> JsAdd(totals[i], EnergyOrZero(dailyData, i - 1))]

\* a variant of AfterStation that loses the accumulator when a call fails
AfterStation_ResetOnFailure(totals, resp) ==
    IF RequestThrows(resp) \/ ~resp.body.hasData
    THEN [i \in 1..Len(totals) |-> Num(0)]
    ELSE Accumulate(totals, resp.body.data)

\* the try/catch of the loop body: the accumulator after one station's call.
\* A call that throws, and a body without data (dailyData[0] throws before
\* anything is added), leave the accumulator as it was
AfterStation(totals, resp) ==
    IF RequestThrows(resp) \/ ~resp.body.hasData
    THEN totals
    ELSE Accumulate(totals, resp.body.data)

\* a variant of Totals whose monthly total sums the rounded daily totals
Totals_SumOfRounded(totals) ==
    [keys |-> {"dailyTotals", "monthlyTotal", "monthName"},
     dailyTotals |-> [i \in 1..Len(totals) |-> Round1(totals[i])],
     monthlyTotal |-> SumSeq([i \in 1..Len(totals) |-> Round1(totals[i])]),
     monthName |-> MonthName(now.month), error |-> ""]

\* roundedTotals and monthlyTotal, and the object returned
Totals(totals) ==
    ResultObject({"dailyTotals", "monthlyTotal", "monthName"},
                 [i \in 1..Len(totals) |-> Round1(totals[i])],
                 Round1(SumSeq(totals)),
                 MonthName(now.month), "")

\* a variant of NextIdx that asks the same station again
NextIdx_Again(i) == i

\* the next station of the for..of loop
NextIdx(i) == i + 1

\* fetchData up to its first await: the station-list request is issued
ListRequest ==
    /\ pc = "start"
    /\ LET r == sendSolisApiRequest("/v1/api/userStationList/", [pageNo |-> 1, pageSize |-> 100])
       IN  /\ inFlight' = inFlight \cup {r}
           /\ sent' = Append(sent, r)
    /\ pc' = "awaitList"
    /\ UNCHANGED <<now, clock, records, idx, dayTotals, listResp, outcomes, result, props>>
    /\ UNCHANGED hVars

\* the station-list call resolves: its records are kept and the accumulator is
\* filled with zeros, or the outer catch returns the error object
ListResponse ==
    /\ pc = "awaitList"
    /\ \E resp \in FailedResponses \cup {EmptyOkResponse} \cup ListResponses :
         \* stationListResponse.data.page.records throws when data is missing
         /\ IF RequestThrows(resp) \/ ~resp.body.hasData
            THEN /\ result' = FailedResult
                 /\ pc' = "returned"
                 /\ UNCHANGED <<records, idx, dayTotals>>
            ELSE /\ records' = resp.body.records
                 /\ dayTotals' = [i \in 1..daysInMonth |-> Num(0)]
                 /\ idx' = 1
                 /\ pc' = "loop"
                 /\ UNCHANGED result
         /\ listResp' = resp
    /\ inFlight' = {}
    /\ clock' = clock + 1
    /\ UNCHANGED <<now, sent, outcomes, props>>
    /\ UNCHANGED hVars

\* the loop body up to its await: the stationMonth request of the next station
StationRequest ==
    /\ pc = "loop"
    /\ idx <= Len(records)
    /\ LET stationId == records[idx].id
           r == sendSolisApiRequest("/v1/api/stationMonth",
                    [id |-> stationId, money |-> "SEK",
                     month |-> MonthStr(now.year, now.month)])
       IN  /\ inFlight' = inFlight \cup {r}
           /\ sent' = Append(sent, r)
    /\ pc' = "awaitStation"
    /\ UNCHANGED <<now, clock, records, idx, dayTotals, listResp, outcomes, result, props>>
    /\ UNCHANGED hVars

\* the stationMonth call resolves: its energies are added, or the inner catch
\* logs the failure; either way the loop goes on with the next station
StationResponse ==
    /\ pc = "awaitStation"
    /\ \E resp \in FailedResponses \cup {EmptyOkResponse} \cup MonthResponses(daysInMonth) :
         /\ dayTotals' = AfterStation(dayTotals, resp)
         /\ outcomes' = Append(outcomes, [id |-> records[idx].id, resp |-> resp])
    /\ idx' = NextIdx(idx)
    /\ inFlight' = {}
    /\ clock' = clock + 1
    /\ pc' = "loop"
    /\ UNCHANGED <<now, records, sent, listResp, result, props>>
    /\ UNCHANGED hVars

\* after the loop: round and return
Return ==
    /\ pc = "loop"
    /\ idx > Len(records)
    /\ result' = Totals(dayTotals)
    /\ pc' = "returned"
    /\ UNCHANGED <<now, clock, records, idx, dayTotals, inFlight, sent, listResp, outcomes, props>>
    /\ UNCHANGED hVars

\* a variant of PropsOf without the || defaults of the totals
PropsOf_NoDefaults(data) ==
    [dailyTotals |-> data.dailyTotals,
     monthlyTotal |-> data.monthlyTotal,
     monthName |-> data.monthName,
     error |-> IF "error" \in data.keys THEN JsOr(Str(data.error), Null) ELSE Null]

\* getStaticProps (pages/index.js): the props built from the returned object
PropsOf(data) ==
    [dailyTotals |-> IF "dailyTotals" \in data.keys THEN data.dailyTotals ELSE <<>>,
     monthlyTotal |-> JsOr(data.monthlyTotal, Num(0)),
     monthName |-> data.monthName,
     error |-> IF "error" \in data.keys THEN JsOr(Str(data.error), Null) ELSE Null]

NoProps == [dailyTotals |-> <<>>, monthlyTotal |-> Undefined, monthName |-> "", error |-> Undefined]

getStaticProps ==
    /\ pc = "returned"
    /\ props' = PropsOf(result)
    /\ pc' = "done"
    /\ UNCHANGED <<now, clock, records, idx, dayTotals, inFlight, sent, listResp, outcomes, result>>
    /\ UNCHANGED hVars

----------------------------------------------------------------------------
(* process.env *)

Env(cron, revalidate) ==
    [API_KEY |-> "key", API_SECRET |-> "secret",
     CRON_SECRET |-> cron, REVALIDATE_SECRET |-> revalidate,
     NEXT_PUBLIC_SITE_URL |-> "https://site"]

NoRequest == [method |-> "", authorization |-> Undefined, secret |-> Undefined]

Init ==
    /\ now \in Nows
    /\ clock = 0
    /\ pc = "start"
    /\ records = <<>>
    /\ idx = 1
    /\ dayTotals = <<>>
    /\ inFlight = {}
    /\ sent = <<>>
    /\ listResp = NoResponse
    /\ outcomes = <<>>
    /\ result = NoResult
    /\ props = NoProps
    /\ hpc = "idle"
    /\ hname = ""
    /\ req = NoRequest
    /\ env = Env(Str("c1"), Str("r1"))
    /\ effects = <<>>
    /\ writes = <<>>
    /\ thrown = ""

Next ==
    \/ ListRequest
    \/ ListResponse
    \/ StationRequest
    \/ StationResponse
    \/ Return
    \/ getStaticProps

Spec == Init /\ [][Next]_vars

----------------------------------------------------------------------------
(* The revalidation handlers, cut at their await *)

\* the requests the handlers are invoked with: the method, the Authorization
\* header and the secret member of the JSON body, each possibly absent
Requests ==
    [method : {"GET", "POST"},
     authorization : {Undefined, Str("Bearer c1"), Str("Bearer c2"), Str("c1")},
     secret : {Undefined, Str("r1"), Str("r2")}]

\* res.status(status).json(..) or .send(..): the write is attempted; only the
\* first write of a response is delivered
ResWrite(ws, status, kind) ==
    Append(ws, [status |-> status, kind |-> kind, delivered |-> (ws = <<>>)])

\* writing to a response that was already sent throws
WriteThrows(ws) == ws # <<>>

\* an event handler's returned { statusCode, body: JSON.stringify(..) }
Returned(status) == <<[status |-> status, kind |-> "json", delivered |-> TRUE]>>

\* a variant of CronAuthorized that accepts any Authorization header
CronAuthorized_AnyHeader(r) == Truthy(r.authorization)

\* req.headers.authorization !== `Bearer ${process.env.CRON_SECRET}` is false
CronAuthorized(r) ==
    StrictEq(r.authorization, Str("Bearer " \o Template(env.CRON_SECRET)))

\* req.body.secret !== process.env.REVALIDATE_SECRET is false
BodySecretOk(r) == StrictEq(r.secret, env.REVALIDATE_SECRET)

\* !secret || secret !== expectedSecret is false
EventSecretOk(r) == Truthy(r.secret) /\ StrictEq(r.secret, env.REVALIDATE_SECRET)

\* pages/api/cron.js, first handler, up to await fetch(..)
CronFetchStart ==
    /\ hpc = "idle"
    /\ \E r \in Requests :
         /\ req' = r
         /\ IF ~CronAuthorized(r)
            THEN /\ writes' = ResWrite(writes, 401, "text")
                 /\ hpc' = "done"
                 /\ UNCHANGED effects
            ELSE /\ effects' = Append(effects,
                        [kind |-> "fetch", method |-> "GET",
                         target |-> env.NEXT_PUBLIC_SITE_URL \o "/api/revalidate",
                         authorization |-> "Bearer " \o Template(env.CRON_SECRET),
                         path |-> "", secret |-> ""])
                 /\ hpc' = "await"
                 /\ UNCHANGED writes
    /\ hname' = "cronFetch"
    /\ UNCHANGED <<env, thrown>>
    /\ UNCHANGED aggVars

\* pages/api/cron.js, first handler, after the await: the status of the
\* answer is not looked at; only a rejected fetch reaches the catch
CronFetchResume ==
    /\ hpc = "await"
    /\ hname = "cronFetch"
    /\ \E outcome \in {"ok", "notOk", "rejected"} :
         writes' = IF outcome = "rejected"
                   THEN ResWrite(writes, 500, "text")
                   ELSE ResWrite(writes, 200, "json")
    /\ hpc' = "done"
    /\ UNCHANGED <<hname, req, env, effects, thrown>>
    /\ UNCHANGED aggVars

\* pages/api/cron.js, second handler, up to await res.revalidate('/')
CronRevalidateStart ==
    /\ hpc = "idle"
    /\ \E r \in Requests :
         /\ req' = r
         /\ IF ~CronAuthorized(r)
            THEN /\ writes' = ResWrite(writes, 401, "text")
                 /\ hpc' = "done"
                 /\ UNCHANGED effects
            ELSE /\ effects' = Append(effects,
                        [kind |-> "revalidate", method |-> "", target |-> "",
                         authorization |-> "", path |-> "/", secret |-> ""])
                 /\ hpc' = "await"
                 /\ UNCHANGED writes
    /\ hname' = "cronRevalidate"
    /\ UNCHANGED <<env, thrown>>
    /\ UNCHANGED aggVars

\* pages/api/cron.js, second handler, after the await
CronRevalidateResume ==
    /\ hpc = "await"
    /\ hname = "cronRevalidate"
    /\ \E outcome \in {"ok", "rejected"} :
         writes' = IF outcome = "rejected"
                   THEN ResWrite(writes, 500, "text")
                   ELSE ResWrite(writes, 200, "json")
    /\ hpc' = "done"
    /\ UNCHANGED <<hname, req, env, effects, thrown>>
    /\ UNCHANGED aggVars

\* unnamed/part_000, default export, up to await res.revalidate(pagePath):
\* the 202 is written before the revalidation is started
RevalidateStart ==
    /\ hpc = "idle"
    /\ \E r \in Requests :
         /\ req' = r
         /\ IF r.method # "POST"
            THEN /\ writes' = ResWrite(writes, 405, "json")
                 /\ hpc' = "done"
                 /\ UNCHANGED effects
            ELSE IF ~BodySecretOk(r)
            THEN /\ writes' = ResWrite(writes, 403, "json")
                 /\ hpc' = "done"
                 /\ UNCHANGED effects
            ELSE /\ writes' = ResWrite(writes, 202, "json")
                 /\ effects' = Append(effects,
                        [kind |-> "revalidate", method |-> "", target |-> "",
                         authorization |-> "", path |-> "/", secret |-> ""])
                 /\ hpc' = "await"
    /\ hname' = "revalidate"
    /\ UNCHANGED <<env, thrown>>
    /\ UNCHANGED aggVars

\* unnamed/part_000, default export, after the await.  Resolved: res.json(..)
\* is a second write, which throws inside the try; the catch then attempts
\* res.status(500).json(..), a third write, which throws out of the handler.
\* Rejected: the catch attempts the 500, a second write, which throws out of
\* the handler.
RevalidateResume ==
    /\ hpc = "await"
    /\ hname = "revalidate"
    /\ \E outcome \in {"ok", "rejected"} :
         LET afterTry == IF outcome = "ok" THEN ResWrite(writes, 200, "json") ELSE writes
             tryThrew == outcome = "rejected" \/ WriteThrows(writes)
             afterCatch == IF tryThrew THEN ResWrite(afterTry, 500, "json") ELSE afterTry
         IN  /\ writes' = afterCatch
             /\ thrown' = IF tryThrew /\ WriteThrows(afterTry)
                          THEN "ERR_HTTP_HEADERS_SENT" ELSE thrown
    /\ hpc' = "done"
    /\ UNCHANGED <<hname, req, env, effects>>
    /\ UNCHANGED aggVars

\* unnamed/part_000, export const handler(event).  With a good secret the
\* handler reaches `const pagePath = path || '/'`: path is declared nowhere,
\* the read throws a ReferenceError outside the try, and lines 39-67 (the
\* fetch of the revalidate route and the 200/500 returns) never run.
EventHandler ==
    /\ hpc = "idle"
    /\ \E r \in Requests :
         /\ req' = r
         /\ IF ~EventSecretOk(r)
            THEN /\ writes' = Returned(403)
                 /\ UNCHANGED thrown
            ELSE /\ thrown' = "ReferenceError: path is not defined"
                 /\ UNCHANGED writes
    /\ hpc' = "done"
    /\ hname' = "event"
    /\ UNCHANGED <<env, effects>>
    /\ UNCHANGED aggVars

\* the handlers run with the secrets configured or left unset; the
\* aggregation is not started
HInit ==
    /\ now = [year |-> 2024, month |-> 11]
    /\ clock = 0
    /\ pc = "start"
    /\ records = <<>>
    /\ idx = 1
    /\ dayTotals = <<>>
    /\ inFlight = {}
    /\ sent = <<>>
    /\ listResp = NoResponse
    /\ outcomes = <<>>
    /\ result = NoResult
    /\ props = NoProps
    /\ hpc = "idle"
    /\ hname = ""
    /\ req = NoRequest
    /\ env \in { Env(c, r) : c \in {Str("c1"), Undefined}, r \in {Str("r1"), Undefined} }
    /\ effects = <<>>
    /\ writes = <<>>
    /\ thrown = ""

HNext ==
    \/ CronFetchStart
    \/ CronFetchResume
    \/ CronRevalidateStart
    \/ CronRevalidateResume
    \/ RevalidateStart
    \/ RevalidateResume
    \/ EventHandler

HSpec == HInit /\ [][HNext]_vars

----------------------------------------------------------------------------
(* Properties of the aggregation (specification Spec) *)

\* the call got a 2xx answer
CallSucceeded(resp) == ~resp.rejected /\ resp.status \in 200..299

\* the station-list call succeeded and gave a list, so the loop is entered
Aggregating ==
    /\ pc \in {"loop", "awaitStation", "returned", "done"}
    /\ CallSucceeded(listResp)
    /\ listResp.body.hasData

Finished == pc \in {"returned", "done"}

\* the energy the day-th entry (day 1 first) of a data array reports, 0 when
\* there is none
EnergyNumber(data, day) ==
    IF day <= Len(data) /\ data[day].t = "object" /\ data[day].energy.t = "number"
    THEN data[day].energy.v
    ELSE 0

\* the day-th entry reports no energy: no entry, no energy member, or null
MissingEnergy(data, day) ==
    \/ day > Len(data)
    \/ data[day].t # "object"
    \/ data[day].energy.t \in {"undefined", "null"}

RECURSIVE ExpectedDay(_, _)
\* the sum for one day of the energies of the first k answered stations
\* whose call succeeded
ExpectedDay(k, day) ==
    IF k = 0 THEN 0
    ELSE ExpectedDay(k - 1, day)
         + (IF CallSucceeded(outcomes[k].resp)
            THEN EnergyNumber(outcomes[k].resp.body.data, day) ELSE 0)

RECURSIVE ExpectedMonth(_, _)
\* the sum of ExpectedDay over the days lo..hi
ExpectedMonth(lo, hi) ==
    IF lo > hi THEN 0
    ELSE IF lo = hi THEN ExpectedDay(Len(outcomes), lo)
    ELSE ExpectedMonth(lo, (lo + hi) \div 2) + ExpectedMonth((lo + hi) \div 2 + 1, hi)

RECURSIVE PlainSum(_, _, _)
\* the sum of the numbers arr[lo..hi]
PlainSum(arr, lo, hi) ==
    IF lo > hi THEN 0
    ELSE IF lo = hi THEN arr[lo].v
    ELSE PlainSum(arr, lo, (lo + hi) \div 2) + PlainSum(arr, (lo + hi) \div 2 + 1, hi)

\* n hundredths rounded to a whole number of tenths, halves up
NearestTenth(n) ==
    CHOOSE m \in (n - 10)..(n + 10) : m % 10 = 0 /\ m - 5 <= n /\ n < m + 5

\* the number of days of the month of now, from the calendar
CalendarDays ==
    CASE now = [year |-> 2023, month |-> 1] -> 28
      [] now = [year |-> 2024, month |-> 1] -> 29
      [] now.month \in {3, 5, 8, 10} -> 30
      [] OTHER -> 31

\* C1: once the station list is fetched, each day's accumulated total is the
\* sum of the energies of exactly the stations whose stationMonth call
\* succeeded, whichever calls failed; the returned daily totals are those sums
\* rounded, and neither the result nor the props carry an error.
C1_StationIsolation ==
    Aggregating =>
        /\ \A i \in 1..Len(dayTotals) :
             dayTotals[i] = Num(ExpectedDay(Len(outcomes), i))
        /\ Finished =>
             /\ "error" \notin result.keys
             /\ "dailyTotals" \in result.keys
             /\ \A i \in 1..Len(dayTotals) :
                  result.dailyTotals[i] = Num(NearestTenth(ExpectedDay(Len(outcomes), i)))
        /\ pc = "done" => props.error = Null

\* a finished run in which one station failed and another one contributed
C1_Witness ==
    /\ pc = "done"
    /\ Aggregating
    /\ \E k \in 1..Len(outcomes) : ~CallSucceeded(outcomes[k].resp)
    /\ \E k \in 1..Len(outcomes) :
         /\ CallSucceeded(outcomes[k].resp)
         /\ \E i \in 1..Len(dayTotals) :
              /\ EnergyNumber(outcomes[k].resp.body.data, i) > 0
              /\ props.dailyTotals[i].v > 0

\* C2: when the station-list call fails, fetchData returns exactly
\* { error: "Failed to fetch data" }, no stationMonth request is issued, and
\* the props carry the error, no daily totals and a monthly total of 0.
C2_ListFailure ==
    (Finished /\ ~CallSucceeded(listResp)) =>
        /\ result.keys = {"error"}
        /\ result.error = "Failed to fetch data"
        /\ Len(sent) = 1
        /\ sent[1].url[2] = "/v1/api/userStationList/"
        /\ outcomes = <<>>
        /\ pc = "done" =>
             /\ props.error = Str("Failed to fetch data")
             /\ props.dailyTotals = <<>>
             /\ props.monthlyTotal = Num(0)

\* the props of a run whose station-list call failed
C2_Witness ==
    /\ pc = "done"
    /\ ~CallSucceeded(listResp)
    /\ props.error = Str("Failed to fetch data")

\* C3: the monthly total is the sum of the unrounded accumulator rounded to
\* one decimal, and each daily total is its accumulator entry rounded to one
\* decimal.
C3_SumThenRound ==
    (Finished /\ Aggregating) =>
        /\ result.monthlyTotal = Num(NearestTenth(PlainSum(dayTotals, 1, Len(dayTotals))))
        /\ Len(result.dailyTotals) = Len(dayTotals)
        /\ \A i \in 1..Len(dayTotals) :
             result.dailyTotals[i] = Num(NearestTenth(dayTotals[i].v))

\* a finished run where the sum of the rounded daily totals is not the
\* monthly total
C3_Witness ==
    /\ pc = "done"
    /\ Aggregating
    /\ PlainSum(props.dailyTotals, 1, Len(props.dailyTotals)) # props.monthlyTotal.v

\* C4: the daily totals have one entry per calendar day of the month (28 to
\* 31), the first for day 1, whatever the lengths of the stations' data
\* arrays; what an array holds past the last day of the month enters neither
\* the daily totals nor the monthly total.
C4_LengthIsDaysInMonth ==
    Aggregating =>
        /\ Len(dayTotals) = CalendarDays
        /\ Finished =>
             /\ Len(result.dailyTotals) = CalendarDays
             /\ result.dailyTotals[1] = Num(NearestTenth(ExpectedDay(Len(outcomes), 1)))
             /\ result.monthlyTotal = Num(NearestTenth(ExpectedMonth(1, CalendarDays)))

\* a finished run with one data array longer than the month, reporting an
\* energy past the last day, and one shorter than the month
C4_Witness ==
    /\ pc = "done"
    /\ Aggregating
    /\ \E k \in 1..Len(outcomes) :
         /\ CallSucceeded(outcomes[k].resp)
         /\ Len(outcomes[k].resp.body.data) > CalendarDays
         /\ EnergyNumber(outcomes[k].resp.body.data, CalendarDays + 1) > 0
    /\ \E k \in 1..Len(outcomes) :
         /\ CallSucceeded(outcomes[k].resp)
         /\ outcomes[k].resp.body.hasData
         /\ Len(outcomes[k].resp.body.data) < CalendarDays

\* C5: when a station's call succeeds, a day for which its data has no entry,
\* no energy member or a null energy leaves that day's accumulator entry as
\* it was, and every accumulator entry stays a number.
C5_MissingEnergyAddsZero ==
    [][(pc = "awaitStation" /\ pc' = "loop") =>
          LET resp == outcomes'[Len(outcomes')].resp
          IN  /\ \A i \in 1..Len(dayTotals') : dayTotals'[i].t = "number"
              /\ (CallSucceeded(resp) /\ resp.body.hasData) =>
                   \A i \in 1..Len(dayTotals) :
                     MissingEnergy(resp.body.data, i) => dayTotals'[i] = dayTotals[i]]_vars

\* the days on which answered station k reports no energy while the day's
\* total is positive
DaysMissingAt(k) ==
    { i \in 1..Len(dayTotals) :
        /\ CallSucceeded(outcomes[k].resp)
        /\ outcomes[k].resp.body.hasData
        /\ MissingEnergy(outcomes[k].resp.body.data, i)
        /\ dayTotals[i].v > 0 }

\* a finished run where a day past the end of a station's data, a day with an
\* entry without energy and a day with a null energy each got a positive
\* total from another station
C5_Witness ==
    /\ pc = "done"
    /\ Aggregating
    /\ \E k \in 1..Len(outcomes) :
         \E i \in DaysMissingAt(k) : i > Len(outcomes[k].resp.body.data)
    /\ \E k \in 1..Len(outcomes) :
         \E i \in DaysMissingAt(k) :
           /\ i <= Len(outcomes[k].resp.body.data)
           /\ outcomes[k].resp.body.data[i].t = "null"
    /\ \E k \in 1..Len(outcomes) :
         \E i \in DaysMissingAt(k) :
           /\ i <= Len(outcomes[k].resp.body.data)
           /\ outcomes[k].resp.body.data[i].t = "object"
           /\ outcomes[k].resp.body.data[i].energy.t = "undefined"
    /\ \E k \in 1..Len(outcomes) :
         \E i \in DaysMissingAt(k) :
           /\ i <= Len(outcomes[k].resp.body.data)
           /\ outcomes[k].resp.body.data[i].t = "object"
           /\ outcomes[k].resp.body.data[i].energy.t = "null"

\* the canonical string a request's signature was computed over
SignedFields(r) == r.headers.Authorization[4].over

\* C8 as stated: every request is signed over method POST, the Content-MD5
\* header, the Content-Type header, the Date header and the path of the URL,
\* in this order, and the digest is that of the body sent.
C8_SignedContentTypeIsHeader ==
    \A k \in 1..Len(sent) :
        /\ SignedFields(sent[k]) =
             <<"POST", sent[k].headers.ContentMD5, sent[k].headers.ContentType,
               sent[k].headers.Date, sent[k].url[2]>>
        /\ sent[k].headers.ContentMD5 = [md5 |-> sent[k].body]

\* C8 amended: every request is signed over method POST, the Content-MD5
\* header, the fixed content type application/json, the Date header and the
\* path of the URL, in this order; the digest is that of the body sent; the
\* Content-Type header declares application/json;charset=UTF-8, which is
\* not the content type that is signed.
C8_SignedFields ==
    \A k \in 1..Len(sent) :
        /\ SignedFields(sent[k]) =
             <<"POST", sent[k].headers.ContentMD5, "application/json",
               sent[k].headers.Date, sent[k].url[2]>>
        /\ sent[k].headers.ContentMD5 = [md5 |-> sent[k].body]
        /\ sent[k].headers.ContentType = "application/json;charset=UTF-8"
        /\ sent[k].headers.ContentType # SignedFields(sent[k])[3]
        /\ sent[k].method = "POST"
        /\ sent[k].url[1] = "https://www.soliscloud.com:13333"

\* both kinds of request were sent, at different times
C8_Witness ==
    /\ Len(sent) >= 2
    /\ sent[1].url[2] = "/v1/api/userStationList/"
    /\ sent[2].url[2] = "/v1/api/stationMonth"
    /\ sent[1].headers.Date # sent[2].headers.Date

\* C9: the station-list call is answered before any stationMonth request is
\* issued; the stationMonth requests follow the order of the records, one
\* per record, each issued only after the previous one was answered, so at
\* most one request is in flight; a finished run has requested every listed
\* station exactly once, failed or not.
C9_Sequential ==
    /\ Cardinality(inFlight) <= 1
    /\ pc = "start" => sent = <<>>
    /\ pc = "awaitList" => Len(sent) = 1
    /\ Len(sent) >= 1 => sent[1].url[2] = "/v1/api/userStationList/"
    /\ Len(sent) >= 2 => Aggregating
    /\ \A k \in 2..Len(sent) :
         /\ sent[k].url[2] = "/v1/api/stationMonth"
         /\ k - 1 <= Len(records)
         /\ sent[k].body.json.id = records[k - 1].id
         /\ k - 2 <= Len(outcomes)
    /\ Aggregating =>
         /\ Len(outcomes) <= Len(sent) - 1
         /\ inFlight = {} => Len(outcomes) = Len(sent) - 1
         /\ \A k \in 1..Len(outcomes) : outcomes[k].id = records[k].id
    /\ (Finished /\ Aggregating) => Len(sent) = Len(records) + 1

\* a finished run over two stations listed out of id order, one of which failed
C9_Witness ==
    /\ pc = "done"
    /\ Aggregating
    /\ Len(records) >= 2
    /\ records[1].id > records[2].id
    /\ \E k \in 1..Len(outcomes) : ~CallSucceeded(outcomes[k].resp)

----------------------------------------------------------------------------
(* Properties of the revalidation handlers (specification HSpec) *)

CronHandlers == {"cronFetch", "cronRevalidate"}

\* the secret the running handler compares with is configured
ExpectedConfigured ==
    IF hname \in CronHandlers
    THEN env.CRON_SECRET.t = "string"
    ELSE env.REVALIDATE_SECRET.t = "string"

\* the request carries the configured secret
SecretMatches ==
    IF hname \in CronHandlers
    THEN req.authorization = Str("Bearer " \o env.CRON_SECRET.s)
    ELSE req.secret = env.REVALIDATE_SECRET

C7_MatchRegenerates ==
    (/\ hpc = "done"
     /\ ExpectedConfigured
     /\ SecretMatches
     /\ hname = "revalidate" => req.method = "POST") =>
        /\ \E k \in 1..Len(effects) :
             \/ effects[k].kind = "revalidate" /\ effects[k].path = "/"
             \/ effects[k].kind = "fetch"
        /\ thrown = ""
        /\ writes # <<>>
        /\ writes[Len(writes)].kind = "json"
        /\ writes[Len(writes)].status \in {200, 202, 403, 405, 500}

\* C10 as stated, for the handlers that write to res (both handlers of
\* cron.js and the default export of part_000): a finished invocation has
\* written exactly one response, and no write followed a sent response.
C10_OneResponse ==
    (hpc = "done" /\ hname \in CronHandlers \cup {"revalidate"}) =>
        /\ Len(writes) = 1
        /\ \A k \in 1..Len(writes) : writes[k].delivered

============================================================================
